---- MODULE Spec2Model ----
(***************************************************************************)
(* Background audit-job scheduler of adk/http/router.py: the registry      *)
(* _jobs, the unit of work _start_audit_job, and the create / status /     *)
(* cancel / stream / rerun handlers, all running on one asyncio event      *)
(* loop. An action is one uninterrupted stretch of a handler or of a task  *)
(* between two real suspension points. A put on the unbounded              *)
(* asyncio.Queue never suspends; the unit of work only suspends inside a   *)
(* provider call (score stage, corrected-draft stage).                     *)
(***************************************************************************)
EXTENDS Integers, Sequences, FiniteSets, TLC

\* ---- bounds of the model
MaxJobs == 2          \* create calls (rerun included) in one behaviour
MaxClock == 1         \* seconds the wall clock advances
MaxItems == 1         \* checklist items of one audit
MaxConsumers == 1     \* stream calls in one behaviour of Spec
MaxStreams == 2       \* stream calls on the one job of SpecStreams
MaxBeats == 1         \* heartbeat frames one consumer records
MaxTimedBeats == 2    \* heartbeat frames of a consumer whose waits are timed

\* ---- values
Paths == {"a.pdf", "b.pdf"}

\* abs(hash(file_path)) % 10000, fixed within one process
PathHash(p) == IF p = "a.pdf" THEN 17 ELSE 42

\* f"job-{utcnow:%Y%m%d%H%M%S}-{pid}-{hash%10000}"; the pid is fixed in a process
JobId(sec, p) == <<sec, PathHash(p)>>

JobIds == {JobId(s, p) : s \in 0..MaxClock, p \in Paths}

JobRefs == 1..MaxJobs
Consumers == 1..MaxConsumers

NoId == <<0, 0>>
NoResult == <<>>      \* the dict has no "result" key
NoParams == [file_path |-> "", org_id |-> "", policy_type |-> "", top_k |-> 0, prefer |-> ""]

\* request bodies the clients send (PolicyAuditJobRequest)
Requests ==
    { [file_path |-> "a.pdf", org_id |-> "", policy_type |-> "Auto", top_k |-> 25, prefer |-> "None"],
      [file_path |-> "b.pdf", org_id |-> "acme", policy_type |-> "hr", top_k |-> 0, prefer |-> "groq"] }

Max(a, b) == IF a >= b THEN a ELSE b
Min(a, b) == IF a <= b THEN a ELSE b

\* the "Smart Auto normalization" of the create handler
NormalizeParams(req) ==
    [file_path |-> req.file_path,
     org_id |-> IF req.org_id = "" THEN "default_org" ELSE req.org_id,
     policy_type |-> IF req.policy_type \in {"None", "Auto", "auto", "AUTO"} THEN "None" ELSE req.policy_type,
     top_k |-> Max(1, Min(20, req.top_k)),
     prefer |-> req.prefer]

\* ---- events and frames
Event(stage, data) == [stage |-> stage, data |-> data]

\* the sentinel string "[DONE]" put on the queue
DONE == Event("[DONE]", <<>>)

VARIABLES
    clock,     \* the wall clock, in seconds
    jobs,      \* _jobs: job id -> reference of the registered dict, 0 when absent
    entry,     \* the dict objects made by create: status, created_at, params, result
    queue,     \* contents of the asyncio.Queue made by the n-th create
    sent,      \* everything the n-th task has put on a queue, in order
    changes,   \* the successive values of the n-th dict's status
    task,      \* the asyncio.Task made by the n-th create
    cons,      \* the stream generators
    log,       \* jobs.jsonl, one record per line
    wait,      \* seconds each stream generator has spent in its current q.get()
    pipe,      \* one call of the audit pipeline's two entry points
    llm,       \* one call of the generation router's generate and generate_stream
    lock       \* _jobs_lock: the stream generator that holds it, 0 when it is free

vars == <<clock, jobs, entry, queue, sent, changes, task, cons, log, wait, pipe, llm, lock>>

nJobs == Cardinality({j \in JobRefs : entry[j].status # "none"})

NoEntry == [id |-> NoId, status |-> "none", created_at |-> 0, params |-> NoParams, result |-> NoResult]
NoTask == [pc |-> "none", must_cancel |-> FALSE, job_id |-> NoId, q |-> 0, n |-> 0, scores |-> <<>>]
NoConsumer == [st |-> "idle", q |-> 0, frames |-> <<>>, beats |-> 0]

\* no stream generator's wait is timed, no pipeline call, no router call
NoWait == <<>>
NoPipe == <<>>
NoLlm == <<>>

\* nobody holds _jobs_lock
NoHolder == 0

Init ==
    /\ clock = 0
    /\ jobs = [id \in JobIds |-> 0]
    /\ entry = [j \in JobRefs |-> NoEntry]
    /\ queue = [j \in JobRefs |-> <<>>]
    /\ sent = [j \in JobRefs |-> <<>>]
    /\ changes = [j \in JobRefs |-> <<>>]
    /\ task = [j \in JobRefs |-> NoTask]
    /\ cons = [c \in Consumers |-> NoConsumer]
    /\ log = <<>>
    /\ wait = NoWait
    /\ pipe = NoPipe
    /\ llm = NoLlm
    /\ lock = NoHolder

\* the wall clock moves on to the next second
Tick ==
    /\ clock < MaxClock
    /\ clock' = clock + 1
    /\ UNCHANGED <<jobs, entry, queue, sent, changes, task, cons, log, wait, pipe, llm, lock>>

\* adk_policy_audit_job: a new dict, queue and task registered under the generated id
CreateJob(req) ==
    LET id == JobId(clock, req.file_path)
        j == nJobs + 1
    IN /\ nJobs < MaxJobs
       /\ lock = NoHolder
       /\ jobs' = [jobs EXCEPT ![id] = j]
       /\ entry' = [entry EXCEPT ![j] = [id |-> id, status |-> "queued", created_at |-> clock,
                                         params |-> NormalizeParams(req), result |-> NoResult]]
       /\ task' = [task EXCEPT ![j] = [NoTask EXCEPT !.pc = "notstarted", !.job_id = id]]
       /\ changes' = [changes EXCEPT ![j] = <<"queued">>]
       /\ UNCHANGED <<clock, queue, sent, cons, log, wait, pipe, llm, lock>>

Create(req) == CreateJob(req)

\* ---- the pipeline's streaming entry point, as far as the job layer sees it

\* representative scorer outputs (0..5): one below the gap threshold, one above
ScoreValues == {3, 5}

RECURSIVE Sum(_)
Sum(s) == IF s = <<>> THEN 0 ELSE Head(s) + Sum(Tail(s))

\* analyze_gaps(scored_items, min_score=4): the items scoring below the threshold
MinScore == 4
ComputeGaps(scores) == SelectSeq(scores, LAMBDA x : x < MinScore)

\* classify, file_check, discover_corpus, index, checklist: no suspension point;
\* a failing collaborator only changes the payload of its own event
PipelineHead(n) ==
    << Event("classify", <<0>>), Event("file_check", <<0>>), Event("discover_corpus", <<0>>),
       Event("index", <<0>>), Event("checklist", <<n>>) >>

\* the score stage's events when the checklist has no items, then gaps and annotate
PipelineNoItems ==
    << Event("score_skipped", <<0>>), Event("gaps", <<0>>), Event("annotate", <<0>>) >>

\* score_done, gaps, annotate once score_batch has returned
PipelineScored(scores) ==
    << Event("score_done", <<Len(scores), Sum(scores)>>),
       Event("gaps", <<Len(ComputeGaps(scores))>>), Event("annotate", <<0>>) >>

\* the payload of the final event: a non-empty dict (composite, scores, gaps, draft)
FinalData(scores, draft) ==
    <<Len(scores), Sum(scores), Len(ComputeGaps(scores)), IF draft THEN 1 ELSE 0>>

\* corrected_draft, report, final
PipelineEnd(scores, draft) ==
    << Event("corrected_draft", <<IF draft THEN 1 ELSE 0>>), Event("report", <<0>>),
       Event("final", FinalData(scores, draft)) >>

\* ---- the unit of work _start_audit_job

\* ev.get("data") or ev
ResultOf(ev) == IF ev.data # <<>> THEN ev.data ELSE <<0>>

\* the loop body after each put: the result is stored when the stage is final
RECURSIVE Observe(_, _)
Observe(result, evs) ==
    IF evs = <<>> THEN result
    ELSE Observe(IF Head(evs).stage = "final" THEN ResultOf(Head(evs)) ELSE result, Tail(evs))

\* the JSON record appended to jobs.jsonl
HistoryRecord(id, e) ==
    [job_id |-> id, status |-> e.status, created_at |-> e.created_at,
     params |-> e.params, result |-> e.result]

\* await q.put(ev) for each of evs, by the task t on the unbounded queue q
Put(t, q, evs) ==
    /\ queue' = [queue EXCEPT ![q] = @ \o evs]
    /\ sent' = [sent EXCEPT ![t] = @ \o evs]

RECURSIVE Assigned(_, _)
\* the status history after the assignments sts (assigning the same value again
\* changes nothing)
Assigned(hist, sts) ==
    IF sts = <<>> THEN hist
    ELSE Assigned(IF hist # <<>> /\ hist[Len(hist)] = Head(sts) THEN hist ELSE Append(hist, Head(sts)),
                  Tail(sts))

\* the dict registered under the task's job id after the task has assigned the
\* statuses sts and seen the events evs; _jobs[job_id] is looked up at each write
Written(t, sts, evs) ==
    LET e == entry[jobs[task[t].job_id]]
    IN [e EXCEPT !.status = IF sts = <<>> THEN @ ELSE sts[Len(sts)], !.result = Observe(@, evs)]

\* the writes of one step of the task t to the registry
Write(t, sts, evs) ==
    /\ entry' = [entry EXCEPT ![jobs[task[t].job_id]] = Written(t, sts, evs)]
    /\ changes' = [changes EXCEPT ![jobs[task[t].job_id]] = Assigned(@, sts)]

\* the unit of work t reaches its next provider call after yielding evs
Suspend(t, q, sts, evs, pc, n, scores) ==
    /\ Put(t, q, evs)
    /\ Write(t, sts, evs)
    /\ task' = [task EXCEPT ![t] = [@ EXCEPT !.pc = pc, !.q = q, !.n = n, !.scores = scores]]
    /\ UNCHANGED log

\* a put of the sentinel that suspends: the task can be resumed or cancelled after it
CompleteSuspended(t, q, sts, evs) ==
    /\ Put(t, q, evs \o <<DONE>>)
    /\ Write(t, sts \o <<"completed">>, evs)
    /\ log' = Append(log, HistoryRecord(task[t].job_id, Written(t, sts \o <<"completed">>, evs)))
    /\ task' = [task EXCEPT ![t] = [@ EXCEPT !.pc = "draft", !.q = q]]

\* the generator is exhausted after evs: [DONE], status completed, history record
Complete(t, q, sts, evs) ==
    /\ Put(t, q, evs \o <<DONE>>)
    /\ Write(t, sts \o <<"completed">>, evs)
    /\ log' = Append(log, HistoryRecord(task[t].job_id, Written(t, sts \o <<"completed">>, evs)))
    /\ task' = [task EXCEPT ![t] = [@ EXCEPT !.pc = "done", !.q = q]]

\* an exception escapes run_stream after evs: status error, error event, [DONE], record
Fail(t, q, sts, evs, msg) ==
    /\ Put(t, q, evs \o <<Event("error", <<msg>>), DONE>>)
    /\ Write(t, sts \o <<"error">>, evs)
    /\ log' = Append(log, HistoryRecord(task[t].job_id, Written(t, sts \o <<"error">>, evs)))
    /\ task' = [task EXCEPT ![t] = [@ EXCEPT !.pc = "done", !.q = q]]

\* the first step of the task: status running, then the pipeline up to its first
\* suspension point. With no checklist items the generator runs to its end in this
\* one step; with items, score_batch reaches the first provider call, or a
\* collaborator of the score stage (retrieval, prompt building) raises before it
TaskStart(t) ==
    /\ task[t].pc = "notstarted"
    /\ ~task[t].must_cancel
    /\ LET q == jobs[task[t].job_id]
       IN \E n \in 0..MaxItems, raise \in BOOLEAN :
            IF n = 0
            THEN /\ ~raise
                 /\ Complete(t, q, <<"running">>, PipelineHead(0) \o PipelineNoItems \o PipelineEnd(<<>>, FALSE))
            ELSE LET start == PipelineHead(n) \o <<Event("score_start", <<n>>)>>
                 IN IF raise
                    THEN Fail(t, q, <<"running">>, start, 1)
                    ELSE Suspend(t, q, <<"running">>, start, "score", n, <<>>)
    /\ UNCHANGED <<clock, jobs, cons, wait, pipe, llm, lock>>

\* cancel() reached the task before its first step: CancelledError is thrown into the
\* coroutine before its first statement, so neither try block is ever entered
TaskCancelledBeforeStart(t) ==
    /\ task[t].pc = "notstarted"
    /\ task[t].must_cancel
    /\ task' = [task EXCEPT ![t] = [@ EXCEPT !.pc = "done"]]
    /\ UNCHANGED <<clock, jobs, entry, queue, sent, changes, cons, log, wait, pipe, llm, lock>>

\* a provider call of the score stage returns
TaskResumeScore(t) ==
    /\ task[t].pc = "score"
    /\ ~task[t].must_cancel
    /\ \E s \in ScoreValues, out \in {"next", "raise"} :
         LET scores == Append(task[t].scores, s)
             q == task[t].q
         IN IF Len(scores) < task[t].n
            THEN CASE out = "next" -> Suspend(t, q, <<>>, <<>>, "score", task[t].n, scores)
                   [] out = "raise" -> Fail(t, q, <<>>, <<>>, 1)
            ELSE /\ out = "next"
                 /\ IF ComputeGaps(scores) # <<>>
                    THEN Suspend(t, q, <<>>, PipelineScored(scores), "draft", task[t].n, scores)
                    ELSE Complete(t, q, <<>>, PipelineScored(scores) \o PipelineEnd(scores, FALSE))
    /\ UNCHANGED <<clock, jobs, cons, wait, pipe, llm, lock>>

\* the provider call of the corrected-draft stage returns its text
TaskResumeDraft(t) ==
    /\ task[t].pc = "draft"
    /\ ~task[t].must_cancel
    /\ Complete(t, task[t].q, <<>>, PipelineEnd(task[t].scores, TRUE))
    /\ UNCHANGED <<clock, jobs, cons, wait, pipe, llm, lock>>

\* CancelledError is raised at the provider call the task is suspended in
TaskCancelled(t) ==
    /\ task[t].pc \in {"score", "draft"}
    /\ task[t].must_cancel
    /\ Put(t, task[t].q, <<Event("cancelled", <<0>>), DONE>>)
    /\ Write(t, <<"cancelled">>, <<>>)
    /\ log' = Append(log, HistoryRecord(task[t].job_id, Written(t, <<"cancelled">>, <<>>)))
    /\ task' = [task EXCEPT ![t] = [@ EXCEPT !.pc = "done"]]
    /\ UNCHANGED <<clock, jobs, cons, wait, pipe, llm, lock>>

\* ---- the other handlers

\* adk_policy_audit_job_status: the status the handler reports for id
StatusOf(id) == IF jobs[id] = 0 THEN "not_found" ELSE entry[jobs[id]].status

\* a status call reads the registry and changes nothing
Status(id) ==
    /\ lock = NoHolder
    /\ StatusOf(id) \in {"not_found", "queued", "running", "cancelling", "cancelled", "completed", "error"}
    /\ UNCHANGED vars

\* adk_policy_audit_job_cancel
Cancel(id) ==
    LET j == jobs[id]
    IN /\ lock = NoHolder
       /\ IF j = 0
          THEN UNCHANGED <<entry, changes, task>>
          ELSE /\ task' = [task EXCEPT ![j] = [@ EXCEPT !.must_cancel = (@ \/ task[j].pc # "done")]]
               /\ entry' = [entry EXCEPT ![j] = [@ EXCEPT !.status = "cancelling"]]
               /\ changes' = [changes EXCEPT ![j] = Assigned(@, <<"cancelling">>)]
       /\ UNCHANGED <<clock, jobs, queue, sent, cons, log, wait, pipe, llm, lock>>

\* _sse_chunk(json.dumps(item)) and _sse_chunk("[DONE]")
JsonDumps(ev) == <<"json", ev.stage, ev.data>>
SseChunk(data) == <<"data: ">> \o data
DoneFrame == SseChunk(<<"[DONE]">>)
HeartbeatFrame == SseChunk(JsonDumps(Event("heartbeat", <<0>>)))
NotFoundFrame == SseChunk(JsonDumps(Event("error", <<404>>)))

\* the frames that are not heartbeats
NonHeartbeat(frames) == SelectSeq(frames, LAMBDA f : f # HeartbeatFrame)

\* heartbeat = 15: the timeout of each q.get(), in seconds
Heartbeat == 15

\* the waits of the consumer c are timed in this specification
Timed(c) == c \in DOMAIN wait

\* asyncio.wait_for(q.get(), timeout=heartbeat) is entered anew by the consumer c
Restart(c) == [x \in DOMAIN wait |-> IF x = c THEN [wait[x] EXCEPT !.cur = 0] ELSE wait[x]]

\* adk_policy_audit_job_stream: gen() looks the job up
StreamOpen(c, id) ==
    /\ cons[c].st = "idle"
    /\ lock = NoHolder
    /\ cons' = [cons EXCEPT ![c] =
                  IF jobs[id] = 0
                  THEN [@ EXCEPT !.st = "ended", !.frames = <<NotFoundFrame, DoneFrame>>]
                  ELSE [@ EXCEPT !.st = "streaming", !.q = jobs[id]]]
    /\ wait' = Restart(c)
    /\ UNCHANGED <<clock, jobs, entry, queue, sent, changes, task, log, pipe, llm, lock>>

\* q.get() returns an item within the heartbeat interval
StreamGet(c) ==
    /\ cons[c].st = "streaming"
    /\ queue[cons[c].q] # <<>>
    /\ LET item == Head(queue[cons[c].q])
       IN /\ queue' = [queue EXCEPT ![cons[c].q] = Tail(@)]
          /\ cons' = [cons EXCEPT ![c] =
                        IF item = DONE
                        THEN [@ EXCEPT !.st = "ended", !.frames = Append(@, DoneFrame)]
                        ELSE [@ EXCEPT !.frames = Append(@, SseChunk(JsonDumps(item)))]]
    /\ wait' = Restart(c)
    /\ UNCHANGED <<clock, jobs, entry, sent, changes, task, log, pipe, llm, lock>>

\* a timeout that leaves the loop (break) instead of going on waiting (continue)
StreamHeartbeatBreak(c) ==
    /\ cons[c].st = "streaming"
    /\ queue[cons[c].q] = <<>>
    /\ cons[c].beats < (IF Timed(c) THEN MaxTimedBeats ELSE MaxBeats)
    /\ Timed(c) => wait[c].cur = Heartbeat
    /\ cons' = [cons EXCEPT ![c] = [@ EXCEPT !.st = "ended", !.frames = Append(@, HeartbeatFrame),
                                               !.beats = @ + 1]]
    /\ wait' = Restart(c)
    /\ UNCHANGED <<clock, jobs, entry, queue, sent, changes, task, log, pipe, llm, lock>>

\* q.get() times out after the heartbeat interval on an empty queue
StreamHeartbeat(c) ==
    /\ cons[c].st = "streaming"
    /\ queue[cons[c].q] = <<>>
    /\ cons[c].beats < (IF Timed(c) THEN MaxTimedBeats ELSE MaxBeats)
    /\ Timed(c) => wait[c].cur = Heartbeat
    /\ cons' = [cons EXCEPT ![c] = [@ EXCEPT !.frames = Append(@, HeartbeatFrame), !.beats = @ + 1]]
    /\ wait' = Restart(c)
    /\ UNCHANGED <<clock, jobs, entry, queue, sent, changes, task, log, pipe, llm, lock>>

\* a second passes while the timed consumers wait in q.get(): an item that is there
\* is taken, and a timeout that is due fires, before more time passes; total counts
\* the seconds waited before the consumer's first event
Elapse ==
    /\ \A c \in DOMAIN wait : cons[c].st = "streaming" =>
          queue[cons[c].q] = <<>> /\ wait[c].cur < Heartbeat
    /\ \E c \in DOMAIN wait : cons[c].st = "streaming"
    /\ wait' = [c \in DOMAIN wait |->
                  IF cons[c].st = "streaming"
                  THEN [cur |-> wait[c].cur + 1,
                        total |-> IF NonHeartbeat(cons[c].frames) = <<>> THEN wait[c].total + 1
                                  ELSE wait[c].total]
                  ELSE wait[c]]
    /\ UNCHANGED <<clock, jobs, entry, queue, sent, changes, task, cons, log, pipe, llm, lock>>

\* _load_jobs(limit=500): the lines of jobs.jsonl that carry the job id
HistoryLimit == 500
Recorded(id) == {i \in 1..Len(log) : i > Len(log) - HistoryLimit /\ log[i].job_id = id}

\* adk_policy_audit_job_rerun: the params of the job the registry holds, else those
\* of a history record of the id (records of one id are told apart by a created_at
\* finer than the second); an id that neither knows is answered 404 and changes
\* nothing
Rerun(id) ==
    /\ lock = NoHolder
    /\ IF jobs[id] # 0
       THEN LET params == entry[jobs[id]].params
            IN /\ params.file_path # ""
               /\ CreateJob(params)
       ELSE IF Recorded(id) # {}
       THEN \E i \in Recorded(id) :
               /\ log[i].params.file_path # ""
               /\ CreateJob(log[i].params)
       ELSE UNCHANGED vars

Next ==
    \/ Tick
    \/ \E req \in Requests : Create(req)
    \/ \E id \in JobIds : Status(id)
    \/ \E id \in JobIds : Cancel(id)
    \/ \E id \in JobIds : Rerun(id)
    \/ \E t \in JobRefs : TaskStart(t)
    \/ \E t \in JobRefs : TaskCancelledBeforeStart(t)
    \/ \E t \in JobRefs : TaskResumeScore(t)
    \/ \E t \in JobRefs : TaskResumeDraft(t)
    \/ \E t \in JobRefs : TaskCancelled(t)
    \/ \E c \in Consumers, id \in JobIds : StreamOpen(c, id)
    \/ \E c \in Consumers : StreamGet(c)
    \/ \E c \in Consumers : StreamHeartbeat(c)

Spec == Init /\ [][Next]_vars

\* ---- one job and several stream calls on it
Streams == 1..MaxStreams

InitStreams ==
    /\ clock = 0
    /\ jobs = [id \in JobIds |-> 0]
    /\ entry = [j \in JobRefs |-> NoEntry]
    /\ queue = [j \in JobRefs |-> <<>>]
    /\ sent = [j \in JobRefs |-> <<>>]
    /\ changes = [j \in JobRefs |-> <<>>]
    /\ task = [j \in JobRefs |-> NoTask]
    /\ cons = [c \in Streams |-> NoConsumer]
    /\ log = <<>>
    /\ wait = NoWait
    /\ pipe = NoPipe
    /\ llm = NoLlm
    /\ lock = NoHolder

NextStreams ==
    \/ nJobs = 0 /\ \E req \in Requests : Create(req)
    \/ \E t \in JobRefs : TaskStart(t)
    \/ \E t \in JobRefs : TaskResumeScore(t)
    \/ \E t \in JobRefs : TaskResumeDraft(t)
    \/ \E c \in Streams, id \in JobIds : StreamOpen(c, id)
    \/ \E c \in Streams : StreamGet(c)
    \/ \E c \in Streams : StreamHeartbeat(c)

SpecStreams == InitStreams /\ [][NextStreams]_vars

\* ---- properties of the job lifecycle

Terminal == {"completed", "error", "cancelled"}

Range(f) == {f[i] : i \in DOMAIN f}

\* the dict currently registered under the job id of the task t
JobOf(t) == jobs[task[t].job_id]

Allowed ==
    { <<"queued", "running">>, <<"running", "completed">>, <<"running", "error">>,
      <<"running", "cancelling">>, <<"cancelling", "cancelled">> }

\* C1: every change of a job's status is one step along queued -> running ->
\* completed, running -> error or running -> cancelling -> cancelled, and the
\* status has been running before the first event is put on the queue.
C1_StatusTransitions ==
    /\ \A j \in JobRefs : \A i \in 1..(Len(changes[j]) - 1) :
          <<changes[j][i], changes[j][i + 1]>> \in Allowed
    /\ \A t \in JobRefs : sent[t] # <<>> => "running" \in Range(changes[JobOf(t)])

\* the stream of consumer c was opened on a registered job and has yielded [DONE]
ReceivedDone(c) == cons[c].st = "ended" /\ cons[c].q # 0

\* C2: once a stream consumer of a job has received the [DONE] frame, the job's
\* status is completed, error or cancelled.
C2_DoneImpliesTerminal ==
    \A c \in DOMAIN cons : ReceivedDone(c) => entry[cons[c].q].status \in Terminal

\* the unit of work t was cancelled while suspended in the pipeline and has handled
\* the CancelledError
CancelObserved(t) == task[t].pc = "done" /\ task[t].must_cancel /\ task[t].q # 0

EndsWith(seq, tail) ==
    /\ Len(seq) >= Len(tail)
    /\ SubSeq(seq, Len(seq) - Len(tail) + 1, Len(seq)) = tail

\* C3: after cancel on a running job, the unit of work's last puts are the cancelled
\* event and then [DONE] (no stage event after them), and from then on the job's
\* status is cancelled.
C3_CancelRunning ==
    \A t \in JobRefs : CancelObserved(t) =>
        /\ EndsWith(sent[t], <<Event("cancelled", <<0>>), DONE>>)
        /\ entry[t].status = "cancelled"

\* C4: a job whose unit of work can take no further step has had a terminal status
\* and has [DONE] on its queue, also when cancel came before the task's first step.
C4_NoJobLeaks ==
    \A t \in JobRefs : task[t].pc = "done" =>
        /\ DONE \in Range(sent[t])
        /\ Range(changes[JobOf(t)]) \cap Terminal # {}

\* C5: a consumer still streaming a job whose unit of work has finished can still
\* reach [DONE]: the sentinel is in the queue it waits on (otherwise the stream
\* never delivers [DONE] and never ends).
C5_StreamCanStillEnd ==
    \A c \in DOMAIN cons :
        (cons[c].st = "streaming" /\ task[cons[c].q].pc = "done") => DONE \in Range(queue[cons[c].q])

\* the frame the stream yields for a queue item
Frame(item) == IF item = DONE THEN DoneFrame ELSE SseChunk(JsonDumps(item))
Frames(items) == [i \in 1..Len(items) |-> Frame(items[i])]

\* C6: for the single consumer of a job, the non-heartbeat frames delivered so far,
\* followed by the frames of what is still queued, are the events the job's unit of
\* work has put, in order.
C6_FifoDelivery ==
    \A c \in DOMAIN cons : cons[c].q # 0 =>
        NonHeartbeat(cons[c].frames) \o Frames(queue[cons[c].q]) = Frames(sent[cons[c].q])

\* the events the task t puts in this step
NewlySent(t) == {i \in (Len(sent[t]) + 1)..Len(sent'[t]) : TRUE}

\* C7: a job's result is written at most once, in the step where a unit of work
\* observes a final event, and with that event's payload.
C7_ResultWrittenOnce ==
    [][\A j \in JobRefs : entry'[j].result # entry[j].result =>
          /\ entry[j].result = NoResult
          /\ \E t \in JobRefs : \E i \in NewlySent(t) :
                sent'[t][i].stage = "final" /\ entry'[j].result = ResultOf(sent'[t][i])]_vars

\* an exception escapes run_stream in the unit of work t in this step
Raised(t) == \E i \in NewlySent(t) : sent'[t][i].stage = "error"

\* C8: when an exception escapes the pipeline in a job's unit of work, the unit of
\* work puts an error event and then [DONE], the job's status becomes error, one
\* history record with status error is appended, and no other job is touched.
C8_ErrorPath ==
    [][\A t \in JobRefs : Raised(t) =>
          /\ \E msg \in {1} : EndsWith(sent'[t], <<Event("error", <<msg>>), DONE>>)
          /\ entry'[t].status = "error"
          /\ Len(log') = Len(log) + 1
          /\ SubSeq(log', 1, Len(log)) = log
          /\ log'[Len(log')].status = "error"
          /\ log'[Len(log')].job_id = task[t].job_id
          /\ \A k \in JobRefs \ {t} :
                entry'[k] = entry[k] /\ queue'[k] = queue[k] /\ task'[k] = task[k]]_vars

\* the lines of the history log that carry the job id of the dict j
RecordsOf(j) == {i \in 1..Len(log) : log[i].job_id = entry[j].id}

JobHasItsRecord(j) ==
    /\ Cardinality(RecordsOf(j)) = 1
    /\ \A i \in RecordsOf(j) : log[i] = HistoryRecord(entry[j].id, entry[j])

\* C9: a job in status completed, error or cancelled has exactly one record in the
\* history log, carrying its id, status, created_at, params and result, and no step
\* changes or removes a record already in the log.
C9_OneHistoryRecord ==
    [][/\ \A j \in JobRefs : entry'[j].status \in Terminal => JobHasItsRecord(j)'
       /\ SubSeq(log', 1, Len(log)) = log]_vars

\* C10: rerun of an existing job registers a job under an id different from the
\* original's, with the original's params.
C10_RerunNewId ==
    [][\A id \in JobIds : (jobs[id] # 0 /\ Rerun(id)) =>
          /\ entry'[nJobs + 1].id # id
          /\ entry'[nJobs + 1].params = entry[jobs[id]].params]_vars

\* ---- properties of the registry

\* C11: a create call never returns the id of a job already registered (so it never
\* replaces that job's registry entry), and a unit of work only ever writes the dict
\* and the queue that were made for it.
C11_UniqueJobIds ==
    [][/\ \A req \in Requests : Create(req) => jobs[JobId(clock, req.file_path)] = 0
       /\ \A t \in JobRefs : task'[t].pc # task[t].pc =>
             \A k \in JobRefs \ {t} : entry'[k] = entry[k] /\ queue'[k] = queue[k]]_vars

\* ---- one job and one stream call whose waits are timed

InitHeartbeat ==
    /\ clock = 0
    /\ jobs = [id \in JobIds |-> 0]
    /\ entry = [j \in JobRefs |-> NoEntry]
    /\ queue = [j \in JobRefs |-> <<>>]
    /\ sent = [j \in JobRefs |-> <<>>]
    /\ changes = [j \in JobRefs |-> <<>>]
    /\ task = [j \in JobRefs |-> NoTask]
    /\ cons = [c \in Consumers |-> NoConsumer]
    /\ log = <<>>
    /\ wait = [c \in Consumers |-> [cur |-> 0, total |-> 0]]
    /\ pipe = NoPipe
    /\ llm = NoLlm
    /\ lock = NoHolder

NextHeartbeat ==
    \/ nJobs = 0 /\ Create(CHOOSE req \in Requests : req.file_path = "a.pdf")
    \/ \E t \in JobRefs : TaskStart(t)
    \/ \E t \in JobRefs : TaskResumeScore(t)
    \/ \E t \in JobRefs : TaskResumeDraft(t)
    \/ \E c \in Consumers, id \in JobIds : StreamOpen(c, id)
    \/ \E c \in Consumers : StreamGet(c)
    \/ \E c \in Consumers : StreamHeartbeat(c)
    \/ Elapse

SpecHeartbeat == InitHeartbeat /\ [][NextHeartbeat]_vars

\* the heartbeat frames a consumer got before its first event
RECURSIVE LeadingBeats(_)
LeadingBeats(frames) ==
    IF frames = <<>> \/ Head(frames) # HeartbeatFrame THEN 0 ELSE 1 + LeadingBeats(Tail(frames))

\* the seconds waited before the first event are made of one full interval per
\* heartbeat frame got before it, and of less than (or just) one interval more
BeatsMatchWait(c) ==
    LET hb == LeadingBeats(cons[c].frames)
    IN IF NonHeartbeat(cons[c].frames) = <<>>
       THEN wait[c].total = Heartbeat * hb + wait[c].cur
       ELSE Heartbeat * hb <= wait[c].total /\ wait[c].total <= Heartbeat * hb + Heartbeat

\* C18: a waiting consumer emits one heartbeat frame each time a full heartbeat
\* interval has passed with no event available, only then, and goes on waiting; so
\* a first event that comes after more than one interval is preceded by a heartbeat.
C18_Heartbeat ==
    [][\A c \in DOMAIN wait :
          /\ wait'[c].cur <= Heartbeat
          /\ BeatsMatchWait(c)'
          /\ (wait'[c].total > Heartbeat /\ cons'[c].frames # <<>>) => cons'[c].frames[1] = HeartbeatFrame
          /\ Len(cons'[c].frames) > Len(cons[c].frames) /\ cons'[c].frames[Len(cons'[c].frames)] = HeartbeatFrame
                => /\ wait[c].cur = Heartbeat
                   /\ queue[cons[c].q] = <<>>
                   /\ cons'[c].st = "streaming"
                   /\ Len(cons'[c].frames) = Len(cons[c].frames) + 1]_vars

\* a consumer got two heartbeat frames and then its first event, after more than
\* two intervals of waiting
C18_Witness ==
    \E c \in DOMAIN wait :
        /\ LeadingBeats(cons[c].frames) = 2
        /\ NonHeartbeat(cons[c].frames) # <<>>
        /\ wait[c].total > 2 * Heartbeat

\* ---- the audit pipeline: PolicyAuditPipeline.run and run_stream

MaxChecklist == 2     \* checklist items the checklist collaborator returns

\* top_k values a caller asks for: below, inside and above [3,30], and one between
\* the job layer's upper limit and the pipeline's
TopKs == {2, 8, 25, 31}

\* clamp_top_k(k, lo=3, hi=30)
TopKLo == 3
TopKHi == 30
ClampTopK(k) == Max(TopKLo, Min(k, TopKHi))

\* the collaborators that can be made to raise, one per stage
Collaborators == {"index", "checklist", "gaps", "annotate", "draft", "report"}

\* what score_batch does: returns, raises TypeError on the prefer keyword (and
\* returns when called again without it), or raises another exception
ScoreOutcomes == {"ok", "typeerror", "raise"}

\* scores the scorer gives: below the gap threshold, on it, above it
ItemScores == {3, 4, 5}

\* the scored items of a checklist of n questions, one list per choice of scores
ScoredLists(n) == [1..n -> ItemScores]
ScoredItems(n) == {[i \in 1..n |-> [question |-> i, score |-> f[i]]] : f \in ScoredLists(n)}

Questions(items) == [i \in 1..Len(items) |-> items[i].question]
Scores(items) == [i \in 1..Len(items) |-> items[i].score]

\* a division by the number of items plus one
CompositeOffByOne(items) == [sum |-> Sum(Scores(items)), n |-> Len(items) + 1]

\* total / count if count else 0.0, kept as the pair it is computed from
Composite(items) == [sum |-> Sum(Scores(items)), n |-> Len(items)]
NoComposite == [sum |-> 0, n |-> 0]

\* the loop with `score > min_score` for `score >= min_score`
RECURSIVE GapItemsStrict(_, _)
GapItemsStrict(scored, min_score) ==
    IF scored = <<>> THEN <<>>
    ELSE LET it == Head(scored)
             rest == GapItemsStrict(Tail(scored), min_score)
         IN IF it.score > min_score THEN rest
            ELSE <<[question |-> it.question, score |-> it.score]>> \o rest

\* analyze_gaps(scored_items, min_score): the loop over the scored items
RECURSIVE GapItems(_, _)
GapItems(scored, min_score) ==
    IF scored = <<>> THEN <<>>
    ELSE LET it == Head(scored)
             rest == GapItems(Tail(scored), min_score)
         IN IF it.score >= min_score THEN rest
            ELSE <<[question |-> it.question, score |-> it.score]>> \o rest

AnalyzeGaps(scored, min_score) ==
    LET gaps == GapItems(scored, min_score) IN [count |-> Len(gaps), items |-> gaps]

\* a call of a collaborator, with the arguments that vary
Call(fn, args) == [fn |-> fn, args |-> args]

\* the dict both entry points build at their end
AuditResult(composite, checklist, scores, gaps, report, annotated, draft) ==
    [composite |-> composite, checklist |-> checklist, scores |-> scores, gaps |-> gaps,
     report_path |-> report, annotated_path |-> annotated, corrected_draft |-> draft]

\* the calls of score_batch: with prefer, and again without it after a TypeError
ScoreCalls(env, items, topn, prefer) ==
    <<Call("score_batch", <<items, topn, prefer>>)>> \o
    (IF env.score = "typeerror" THEN <<Call("score_batch", <<items, topn>>)>> ELSE <<>>)

\* the state of a run_stream generator before its first step
NoStream ==
    [pc |-> "classify", events |-> <<>>, calls |-> <<>>, topn |-> 0, checklist |-> <<>>,
     scores |-> <<>>, composite |-> NoComposite, gaps |-> <<>>, annotated |-> FALSE,
     draft |-> FALSE, report |-> FALSE]

Yield(s, evs, next) == [s EXCEPT !.events = @ \o evs, !.pc = next]

\* run_stream up to its next yield (or to the exception that ends it), from the
\* position s.pc, for the arguments top_k and prefer and the collaborators env
StreamStage(top_k, prefer, env, s) ==
    CASE s.pc = "classify" -> Yield(s, <<Event("classify", <<0>>)>>, "file_check")
      [] s.pc = "file_check" -> Yield(s, <<Event("file_check", <<env.exists>>)>>, "discover_corpus")
      [] s.pc = "discover_corpus" -> Yield(s, <<Event("discover_corpus", <<0>>)>>, "index")
      [] s.pc = "index" ->
            Yield([s EXCEPT !.calls = Append(@, Call("index_documents", <<>>))],
                  <<Event("index", <<IF "index" \in env.fail THEN 0 ELSE 1>>)>>, "checklist")
      [] s.pc = "checklist" ->
            LET topn == ClampTopK(top_k)
                checklist == IF "checklist" \in env.fail THEN <<>> ELSE Questions(env.items)
            IN Yield([s EXCEPT !.calls = Append(@, Call("generate_checklist", <<topn>>)),
                               !.topn = topn, !.checklist = checklist],
                     <<Event("checklist", <<Len(checklist)>>)>>, "score")
      [] s.pc = "score" ->
            IF s.checklist # <<>>
            THEN LET start == Event("score_start", <<Len(s.checklist), s.topn>>)
                     called == [s EXCEPT !.calls = @ \o ScoreCalls(env, s.checklist, s.topn, prefer)]
                 IN IF env.score = "raise"
                    THEN Yield(called, <<start>>, "raised")
                    ELSE Yield([called EXCEPT !.scores = env.items, !.composite = Composite(env.items)],
                               <<start, Event("score_done", <<Len(env.items), Composite(env.items)>>)>>,
                               "gaps")
            ELSE Yield(s, <<Event("score_skipped", <<0>>)>>, "gaps")
      [] s.pc = "gaps" ->
            IF s.scores # <<>>
            THEN LET called == [s EXCEPT !.calls = Append(@, Call("compute_gaps", <<s.scores, MinScore>>))]
                 IN IF "gaps" \in env.fail
                    THEN Yield(called, <<>>, "raised")
                    ELSE LET gaps == AnalyzeGaps(s.scores, MinScore).items
                         IN Yield([called EXCEPT !.gaps = gaps], <<Event("gaps", <<Len(gaps)>>)>>, "annotate")
            ELSE Yield(s, <<Event("gaps", <<0>>)>>, "annotate")
      [] s.pc = "annotate" ->
            LET ok == "annotate" \notin env.fail
            IN Yield([s EXCEPT !.calls = Append(@, Call("annotate_policy", <<s.gaps>>)), !.annotated = ok],
                     <<Event("annotate", <<ok>>)>>, "corrected_draft")
      [] s.pc = "corrected_draft" ->
            IF s.gaps # <<>>
            THEN LET ok == "draft" \notin env.fail
                 IN Yield([s EXCEPT !.calls = Append(@, Call("generate", <<s.gaps, prefer>>)), !.draft = ok],
                          <<Event("corrected_draft", <<ok>>)>>, "report")
            ELSE Yield(s, <<Event("corrected_draft", <<FALSE>>)>>, "report")
      [] s.pc = "report" ->
            LET ok == "report" \notin env.fail
            IN Yield([s EXCEPT !.calls = Append(@, Call("write_audit_pdf",
                                    <<s.composite, s.checklist, s.scores, s.gaps, s.draft>>)),
                               !.report = ok],
                     <<Event("report", <<ok>>)>>, "final")
      [] s.pc = "final" ->
            Yield(s, <<Event("final", AuditResult(s.composite, s.checklist, s.scores, s.gaps,
                                                  s.report, s.annotated, s.draft))>>, "done")

\* nothing returned: the call raised
NoAuditResult == <<>>

\* run with the gap threshold min_score: the same stages without the events; the
\* value it returns, the calls it made and whether an exception left it
RunStages(min_score, top_k, prefer, env) ==
    LET index == <<Call("index_documents", <<>>)>>
        topn == ClampTopK(top_k)
        checklist == IF "checklist" \in env.fail THEN <<>> ELSE Questions(env.items)
        toChecklist == Append(index, Call("generate_checklist", <<topn>>))
        toScore == IF checklist # <<>> THEN toChecklist \o ScoreCalls(env, checklist, topn, prefer)
                   ELSE toChecklist
    IN IF checklist # <<>> /\ env.score = "raise"
       THEN [calls |-> toScore, result |-> NoAuditResult, raised |-> TRUE]
       ELSE LET scores == IF checklist # <<>> THEN env.items ELSE <<>>
                composite == IF checklist # <<>> THEN Composite(env.items) ELSE NoComposite
                toGaps == IF scores # <<>> THEN Append(toScore, Call("compute_gaps", <<scores, min_score>>))
                          ELSE toScore
            IN IF scores # <<>> /\ "gaps" \in env.fail
               THEN [calls |-> toGaps, result |-> NoAuditResult, raised |-> TRUE]
               ELSE LET gaps == IF scores # <<>> THEN AnalyzeGaps(scores, min_score).items ELSE <<>>
                        annotated == "annotate" \notin env.fail
                        toAnnotate == Append(toGaps, Call("annotate_policy", <<gaps>>))
                        draft == gaps # <<>> /\ "draft" \notin env.fail
                        toDraft == IF gaps # <<>> THEN Append(toAnnotate, Call("generate", <<gaps, prefer>>))
                                   ELSE toAnnotate
                        report == "report" \notin env.fail
                        toReport == Append(toDraft, Call("write_audit_pdf",
                                                         <<composite, checklist, scores, gaps, draft>>))
                    IN [calls |-> toReport,
                        result |-> AuditResult(composite, checklist, scores, gaps, report, annotated, draft),
                        raised |-> FALSE]

\* a run whose gap threshold is not the one run_stream uses
RunOtherThreshold(top_k, prefer, env) == RunStages(MinScore + 1, top_k, prefer, env)

\* run, with min_score=4 as run_stream
Run(top_k, prefer, env) == RunStages(MinScore, top_k, prefer, env)

\* ---- one direct call of each entry point, or one job's call of run_stream

\* the top_k the pipeline is called with: the caller's, or the job's stored one
PipelineTopK(via, top_k) ==
    IF via = "job"
    THEN NormalizeParams([file_path |-> "a.pdf", org_id |-> "", policy_type |-> "Auto",
                          top_k |-> top_k, prefer |-> "None"]).top_k
    ELSE top_k

\* the collaborators' behaviour, and whether Path(file_path).exists()
Envs ==
    { [fail |-> f, score |-> o, items |-> its, exists |-> x] :
        f \in SUBSET Collaborators, o \in ScoreOutcomes,
        its \in UNION {ScoredItems(n) : n \in 0..MaxChecklist}, x \in BOOLEAN }

NoBlocking == [pc |-> "start", calls |-> <<>>, result |-> NoAuditResult, raised |-> FALSE]

InitPipeline ==
    /\ clock = 0
    /\ jobs = [id \in JobIds |-> 0]
    /\ entry = [j \in JobRefs |-> NoEntry]
    /\ queue = [j \in JobRefs |-> <<>>]
    /\ sent = [j \in JobRefs |-> <<>>]
    /\ changes = [j \in JobRefs |-> <<>>]
    /\ task = [j \in JobRefs |-> NoTask]
    /\ cons = [c \in Consumers |-> NoConsumer]
    /\ log = <<>>
    /\ wait = NoWait
    /\ llm = NoLlm
    /\ lock = NoHolder
    /\ \E k \in TopKs, via \in {"direct", "job"}, env \in Envs :
          pipe = [top_k |-> k, via |-> via, prefer |-> "None", env |-> env,
                  st |-> NoStream, bl |-> NoBlocking]

\* the consumer of run_stream asks for the next event
RunStreamNext ==
    /\ pipe.st.pc \notin {"done", "raised"}
    /\ pipe' = [pipe EXCEPT !.st = StreamStage(PipelineTopK(pipe.via, pipe.top_k), pipe.prefer, pipe.env, @)]
    /\ UNCHANGED <<clock, jobs, entry, queue, sent, changes, task, cons, log, wait, llm, lock>>

\* a direct call of run with the same arguments and collaborators
RunBlocking ==
    /\ pipe.bl.pc = "start"
    /\ pipe.via = "direct"
    /\ pipe.st.pc \in {"classify", "done", "raised"}
    /\ LET r == Run(pipe.top_k, pipe.prefer, pipe.env)
       IN pipe' = [pipe EXCEPT !.bl = [pc |-> "returned", calls |-> r.calls, result |-> r.result,
                                       raised |-> r.raised]]
    /\ UNCHANGED <<clock, jobs, entry, queue, sent, changes, task, cons, log, wait, llm, lock>>

NextPipeline == RunStreamNext \/ RunBlocking

SpecPipeline == InitPipeline /\ [][NextPipeline]_vars

\* ---- properties of the pipeline

Stages ==
    <<"classify", "file_check", "discover_corpus", "index", "checklist", "score", "gaps",
      "annotate", "corrected_draft", "report", "final">>

\* the stage an event of run_stream belongs to
StageOf(ev) == IF ev.stage \in {"score_start", "score_done", "score_skipped"} THEN "score" ELSE ev.stage

StreamOver == pipe.st.pc \in {"done", "raised"}
LastEvent == pipe.st.events[Len(pipe.st.events)]

\* C12: whichever collaborators fail, neither entry point raises, run_stream ends
\* with the final event, and a failed stage leaves its contribution empty.
C12_StagesIsolated ==
    /\ pipe.st.pc # "raised"
    /\ ~pipe.bl.raised
    /\ pipe.st.pc = "done" =>
          /\ LastEvent.stage = "final"
          /\ "checklist" \in pipe.env.fail => LastEvent.data.checklist = <<>>
          /\ "annotate" \in pipe.env.fail => ~LastEvent.data.annotated_path
          /\ "draft" \in pipe.env.fail => ~LastEvent.data.corrected_draft
          /\ "report" \in pipe.env.fail => ~LastEvent.data.report_path

\* C13: the events of run_stream are one per stage, in the fixed stage order, and a
\* run that is over has yielded all of them, the last being the one final event,
\* which carries the AuditResult.
C13_OneEventPerStage ==
    LET names == [i \in 1..Len(pipe.st.events) |-> StageOf(pipe.st.events[i])]
    IN /\ Len(names) <= Len(Stages)
       /\ names = SubSeq(Stages, 1, Len(names))
       /\ StreamOver =>
             /\ Len(names) = Len(Stages)
             /\ LastEvent.data = AuditResult(pipe.st.composite, pipe.st.checklist, pipe.st.scores,
                                             pipe.st.gaps, pipe.st.report, pipe.st.annotated, pipe.st.draft)

BothOver == StreamOver /\ pipe.bl.pc = "returned"

\* C14: for the same arguments and collaborators, run raises exactly when run_stream
\* does, both make the same calls in the same order, and the payload of the final
\* event is the value run returns.
C14_EntryPointsAgree ==
    BothOver =>
        /\ pipe.bl.raised <=> pipe.st.pc = "raised"
        /\ pipe.bl.calls = pipe.st.calls
        /\ ~pipe.bl.raised => LastEvent.stage = "final" /\ LastEvent.data = pipe.bl.result

\* both entry points have ended without raising, after a retried score_batch, with a
\* gap and a failed report
C14_Witness ==
    /\ BothOver
    /\ ~pipe.bl.raised
    /\ pipe.env.score = "typeerror"
    /\ pipe.bl.result.gaps # <<>>
    /\ ~pipe.bl.result.report_path

\* the items of a list that score below 4, in the order of the list
Below4(items) == SelectSeq(items, LAMBDA it : it.score < 4)

\* C19: compute_gaps with min_score 4 returns one entry per item scoring below 4, in
\* input order, none for another item, and their number as count; the gaps of a
\* pipeline run are those of its scored items.
C19_GapsBelowThreshold ==
    LET out == AnalyzeGaps(pipe.env.items, 4)
        low == Below4(pipe.env.items)
    IN /\ out.count = Len(low)
       /\ Len(out.items) = Len(low)
       /\ \A i \in 1..Len(low) :
             out.items[i].question = low[i].question /\ out.items[i].score = low[i].score
       /\ pipe.st.pc \in {"annotate", "corrected_draft", "report", "final", "done"} =>
             /\ Len(pipe.st.gaps) = Len(Below4(pipe.st.scores))
             /\ \A i \in 1..Len(pipe.st.gaps) :
                   pipe.st.gaps[i].question = Below4(pipe.st.scores)[i].question

\* a finished run whose two scored items are one below and one on the threshold
C19_Witness ==
    /\ pipe.st.pc = "done"
    /\ Len(pipe.st.scores) = 2
    /\ pipe.st.scores[1].score = 4
    /\ pipe.st.scores[2].score = 3
    /\ Len(pipe.st.gaps) = 1

\* top_k clamped to [3,30]
Clamped3To30(k) == IF k < 3 THEN 3 ELSE IF k > 30 THEN 30 ELSE k

\* C20: the N handed to the checklist and score stages is the requested top_k
\* clamped to [3,30], in a direct call and in a job created with that top_k, and
\* clamping twice is clamping once.
C20_TopKClamped ==
    /\ ClampTopK(ClampTopK(pipe.top_k)) = ClampTopK(pipe.top_k)
    /\ pipe.st.pc \notin {"classify", "file_check", "discover_corpus", "index", "checklist"} =>
          /\ pipe.st.topn = Clamped3To30(pipe.top_k)
          /\ \A i \in 1..Len(pipe.st.calls) :
                /\ pipe.st.calls[i].fn = "generate_checklist" => pipe.st.calls[i].args[1] = Clamped3To30(pipe.top_k)
                /\ pipe.st.calls[i].fn = "score_batch" => pipe.st.calls[i].args[2] = Clamped3To30(pipe.top_k)
    /\ pipe.bl.pc = "returned" =>
          \A i \in 1..Len(pipe.bl.calls) :
             pipe.bl.calls[i].fn = "generate_checklist" => pipe.bl.calls[i].args[1] = Clamped3To30(pipe.top_k)

\* ---- the generation router: LLMRouter.generate and generate_stream

MaxChunk == 2         \* largest chunk_size a caller passes

\* order = ["gemini", "openai", "groq"]
DefaultOrder == <<"gemini", "openai", "groq">>
ProviderNames == {"gemini", "openai", "groq"}

\* the providers generate_stream has a native streaming branch for
Streaming == {"openai", "groq"}

\* values of the prefer argument ("None": not given) and of settings.prefer
Prefers == {"None", "auto", "gemini", "openai", "groq", "Groq", "mistral"}
Configured == {"groq", "auto"}

\* str.lower() on the values above
Lower(s) == IF s = "Groq" THEN "groq" ELSE s

\* (prefer or self.prefer or "auto").lower()
EffPrefer(prefer, configured) == Lower(IF prefer # "None" THEN prefer ELSE configured)

\* order.remove(eff_prefer); order.insert(0, eff_prefer)
Order(eff) ==
    IF eff \in ProviderNames
    THEN <<eff>> \o SelectSeq(DefaultOrder, LAMBDA p : p # eff)
    ELSE DefaultOrder

\* texts, as sequences of characters
Prompts == {<<"x">>, <<"x", "y", "z">>}
MockText(prompt) == <<"M", "O", "C", "K", ":", " ">> \o prompt
HelpText == <<"h", "e", "l", "p">>
ProviderText(p) == <<<<p, 1>>, <<p, 2>>, <<p, 3>>>>

\* the deltas the provider's native stream sends for that text
ProviderDeltas(p) == <<SubSeq(ProviderText(p), 1, 2), SubSeq(ProviderText(p), 3, 3)>>

\* what a provider does: its key is set or not; its non-streaming call returns text,
\* returns empty text, or fails; its stream sends all deltas, answers 200 and sends
\* none, fails before the first delta, or fails after the first delta
CallOutcomes == {"text", "empty", "error"}
StreamOutcomes == {"deltas", "none", "fail", "partial"}
NoKey == [key |-> FALSE, call |-> "error", stream |-> "fail"]
ProviderSetups(p) ==
    {NoKey} \cup
    {[key |-> TRUE, call |-> c, stream |-> s] :
        c \in CallOutcomes, s \in IF p \in Streaming THEN StreamOutcomes ELSE {"fail"}}

\* LLMResponse, and None
Response(text, provider) == [text |-> text, provider |-> provider]
NoResponse == [text |-> <<>>, provider |-> "none"]

\* _gemini / _openai / _groq: None without a key or on an error, else the response
CallProvider(p, prov) ==
    IF ~prov[p].key \/ prov[p].call = "error" THEN NoResponse
    ELSE IF prov[p].call = "empty" THEN Response(<<>>, p)
    ELSE Response(ProviderText(p), p)

\* one attempt: the provider, by a non-streaming call or a stream, and whether the
\* backend was contacted
Attempt(p, how, prov) == [provider |-> p, how |-> how, contacted |-> prov[p].key]

\* the loop of generate with `if r:` for `if r and r.text:`
RECURSIVE TryProvidersAnyResponse(_, _, _)
TryProvidersAnyResponse(order, prov, attempts) ==
    IF order = <<>> THEN [resp |-> NoResponse, attempts |-> attempts]
    ELSE LET r == CallProvider(Head(order), prov)
             tried == Append(attempts, Attempt(Head(order), "call", prov))
         IN IF r # NoResponse THEN [resp |-> r, attempts |-> tried]
            ELSE TryProvidersAnyResponse(Tail(order), prov, tried)

\* for p in order: r = await self._<p>(prompt); if r and r.text: return r
RECURSIVE TryProviders(_, _, _)
TryProviders(order, prov, attempts) ==
    IF order = <<>> THEN [resp |-> NoResponse, attempts |-> attempts]
    ELSE LET r == CallProvider(Head(order), prov)
             tried == Append(attempts, Attempt(Head(order), "call", prov))
         IN IF r # NoResponse /\ r.text # <<>> THEN [resp |-> r, attempts |-> tried]
            ELSE TryProviders(Tail(order), prov, tried)

\* generate(prompt, prefer)
Generate(c) ==
    IF c.mock THEN [resp |-> Response(MockText(c.prompt), "mock"), attempts |-> <<>>]
    ELSE TryProviders(Order(EffPrefer(c.prefer, c.configured)), c.prov, <<>>)

\* for i in range(0, len(text), chunk_size): yield text[i : i + chunk_size]
RECURSIVE Chunks(_, _)
Chunks(text, size) ==
    IF text = <<>> THEN <<>>
    ELSE <<SubSeq(text, 1, Min(size, Len(text)))>> \o Chunks(SubSeq(text, size + 1, Len(text)), size)

\* the fragments yielded so far and the attempts made so far
Streamed(frags, attempts) == [frags |-> frags, attempts |-> attempts]

\* 2) res = await self.generate(...); the text is yielded in chunks
FallbackChunked(c, frags, attempts) ==
    LET g == Generate(c)
    IN Streamed(frags \o Chunks(g.resp.text, c.chunk), attempts \o g.attempts)

\* if not yielded_any: res = await self.generate(...); if txt: yield txt
FallbackOnce(c, frags, attempts) ==
    LET g == Generate(c)
    IN Streamed(frags \o (IF g.resp.text # <<>> THEN <<g.resp.text>> ELSE <<>>), attempts \o g.attempts)

\* 1) for p in order: the native stream of openai and groq when their key is set;
\* the gemini branch does nothing
RECURSIVE NativeStreams(_, _, _, _)
NativeStreams(order, c, frags, attempts) ==
    IF order = <<>> THEN FallbackChunked(c, frags, attempts)
    ELSE LET p == Head(order)
             tried == Append(attempts, Attempt(p, "stream", c.prov))
         IN IF p \notin Streaming THEN NativeStreams(Tail(order), c, frags, attempts)
            ELSE IF ~c.prov[p].key THEN NativeStreams(Tail(order), c, frags, tried)
            ELSE CASE c.prov[p].stream = "deltas" -> Streamed(frags \o ProviderDeltas(p), tried)
                   [] c.prov[p].stream = "none" -> FallbackOnce(c, frags, tried)
                   [] c.prov[p].stream = "fail" -> NativeStreams(Tail(order), c, frags, tried)
                   [] c.prov[p].stream = "partial" ->
                         NativeStreams(Tail(order), c, Append(frags, ProviderDeltas(p)[1]), tried)

\* generate_stream(prompt, chunk_size, prefer)
GenerateStream(c) ==
    IF c.mock THEN Streamed(Chunks(MockText(c.prompt), c.chunk), <<>>)
    ELSE IF \A p \in ProviderNames : ~c.prov[p].key THEN Streamed(Chunks(HelpText, c.chunk), <<>>)
    ELSE NativeStreams(Order(EffPrefer(c.prefer, c.configured)), c, <<>>, <<>>)

\* ---- one call of generate and one of generate_stream with the same arguments,
\* ---- environment and provider behaviour

RouterCalls ==
    { [mock |-> m, prefer |-> pr, configured |-> cf, prompt |-> pt, chunk |-> ch,
       prov |-> [p \in ProviderNames |-> IF p = "gemini" THEN g ELSE IF p = "openai" THEN o ELSE q]] :
        m \in BOOLEAN, pr \in Prefers, cf \in Configured, pt \in Prompts, ch \in 1..MaxChunk,
        g \in ProviderSetups("gemini"), o \in ProviderSetups("openai"), q \in ProviderSetups("groq") }

NoGenerated == [done |-> FALSE, resp |-> NoResponse, attempts |-> <<>>]
NoStreamed == [done |-> FALSE, frags |-> <<>>, attempts |-> <<>>]

InitRouter ==
    /\ clock = 0
    /\ jobs = [id \in JobIds |-> 0]
    /\ entry = [j \in JobRefs |-> NoEntry]
    /\ queue = [j \in JobRefs |-> <<>>]
    /\ sent = [j \in JobRefs |-> <<>>]
    /\ changes = [j \in JobRefs |-> <<>>]
    /\ task = [j \in JobRefs |-> NoTask]
    /\ cons = [c \in Consumers |-> NoConsumer]
    /\ log = <<>>
    /\ wait = NoWait
    /\ pipe = NoPipe
    /\ lock = NoHolder
    /\ \E c \in RouterCalls : llm = [c |-> c, gen |-> NoGenerated, str |-> NoStreamed]

\* await router.generate(prompt, prefer=prefer)
CallGenerate ==
    /\ ~llm.gen.done
    /\ LET g == Generate(llm.c)
       IN llm' = [llm EXCEPT !.gen = [done |-> TRUE, resp |-> g.resp, attempts |-> g.attempts]]
    /\ UNCHANGED <<clock, jobs, entry, queue, sent, changes, task, cons, log, wait, pipe, lock>>

\* async for frag in router.generate_stream(prompt, chunk_size, prefer), to its end
CallGenerateStream ==
    /\ ~llm.str.done
    /\ LET s == GenerateStream(llm.c)
       IN llm' = [llm EXCEPT !.str = [done |-> TRUE, frags |-> s.frags, attempts |-> s.attempts]]
    /\ UNCHANGED <<clock, jobs, entry, queue, sent, changes, task, cons, log, wait, pipe, lock>>

NextRouter == CallGenerate \/ CallGenerateStream

SpecRouter == InitRouter /\ [][NextRouter]_vars

\* ---- properties of the router

\* the preference in force: the argument, else the configured one
Preferred == EffPrefer(llm.c.prefer, llm.c.configured)

\* the default list with the preferred provider moved to the front
Rotated(pref) ==
    IF pref = "gemini" THEN <<"gemini", "openai", "groq">>
    ELSE IF pref = "openai" THEN <<"openai", "gemini", "groq">>
    ELSE IF pref = "groq" THEN <<"groq", "gemini", "openai">>
    ELSE <<"gemini", "openai", "groq">>

AttemptedProviders(attempts) == [i \in 1..Len(attempts) |-> attempts[i].provider]

\* the attempts start with the preferred provider when it is a known one, follow the
\* rotated default list, and name no provider twice
InPreferenceOrder(attempts) ==
    /\ Len(attempts) <= Len(DefaultOrder)
    /\ AttemptedProviders(attempts) = SubSeq(Rotated(Preferred), 1, Len(attempts))

\* C15: in generate and in generate_stream the first provider attempted is the
\* preferred one when that is a known provider, the attempts follow the default list
\* rotated to it (the default list itself when there is no known preference), and no
\* provider is attempted twice.
C15_PreferredFirst ==
    /\ llm.gen.done => InPreferenceOrder(llm.gen.attempts)
    /\ llm.str.done => InPreferenceOrder(llm.str.attempts)

\* the provider's non-streaming attempt yields non-empty text
Works(p) == llm.c.prov[p].key /\ llm.c.prov[p].call = "text"

\* C16: without the mock flag, generate returns the response of the earliest provider
\* of the attempt order whose attempt yields non-empty text and contacts no provider
\* after it; it returns absent exactly when no provider's attempt yields text.
C16_FirstNonEmpty ==
    (llm.gen.done /\ ~llm.c.mock) =>
        LET order == Rotated(Preferred)
            working == {i \in 1..Len(order) : Works(order[i])}
        IN /\ (llm.gen.resp = NoResponse) <=> (working = {})
           /\ \A i \in working : (\A j \in working : i <= j) =>
                 /\ llm.gen.resp = Response(ProviderText(order[i]), order[i])
                 /\ AttemptedProviders(llm.gen.attempts) = SubSeq(order, 1, i)

\* generate has passed over a provider without a key and one that returned empty
\* text, and has returned the text of the third, the preferred one being known
C16_Witness ==
    /\ llm.gen.done
    /\ ~llm.c.mock
    /\ Preferred = "openai"
    /\ ~llm.c.prov["openai"].key
    /\ llm.c.prov["gemini"].key /\ llm.c.prov["gemini"].call = "empty"
    /\ llm.gen.resp = Response(ProviderText("groq"), "groq")

RECURSIVE Concat(_)
Concat(frags) == IF frags = <<>> THEN <<>> ELSE Head(frags) \o Concat(Tail(frags))

\* C17: the fragments of generate_stream, put together in order, are the text
\* generate returns for the same call (the empty text when it returns absent).
C17_StreamEqualsGenerate ==
    (llm.gen.done /\ llm.str.done) => Concat(llm.str.frags) = llm.gen.resp.text

\* ---- more properties of the pipeline

\* C21: for a file path that does not exist neither entry point raises, and the
\* AuditResult has an empty checklist, no scores, no gaps and composite 0.
C21_MissingFileEmptyResult ==
    ~pipe.env.exists =>
        /\ pipe.st.pc # "raised"
        /\ ~pipe.bl.raised
        /\ pipe.st.pc = "done" =>
              /\ LastEvent.data.checklist = <<>>
              /\ LastEvent.data.scores = <<>>
              /\ LastEvent.data.gaps = <<>>
              /\ LastEvent.data.composite = NoComposite
        /\ pipe.bl.pc = "returned" =>
              /\ pipe.bl.result.checklist = <<>>
              /\ pipe.bl.result.scores = <<>>
              /\ pipe.bl.result.gaps = <<>>
              /\ pipe.bl.result.composite = NoComposite

\* the calls of the collaborator fn among calls
CallsOf(calls, fn) == {i \in 1..Len(calls) : calls[i].fn = fn}

CollaboratorOps ==
    {"index_documents", "generate_checklist", "score_batch", "annotate_policy", "generate",
     "write_audit_pdf"}

InvokedAtMostOnce(calls) == \A fn \in CollaboratorOps : Cardinality(CallsOf(calls, fn)) <= 1

\* C22: nothing retries: in one pipeline run each collaborator operation is invoked
\* at most once whatever its outcome; a unit of work of a job in status error or
\* cancelled takes no further step, and a job only appears by create or rerun.
C22_NoAutomaticRetry ==
    [][/\ pipe' # NoPipe => InvokedAtMostOnce(pipe'.st.calls) /\ InvokedAtMostOnce(pipe'.bl.calls)
       /\ \A t \in JobRefs :
             (task[t].q = t /\ entry[t].status \in {"error", "cancelled"}) => task'[t] = task[t]
       /\ nJobs' # nJobs => (\E req \in Requests : Create(req)) \/ (\E id \in JobIds : Rerun(id))]_vars

\* ---- more properties of the job layer

\* the dict, queue and task made by the k-th create are as they were
Untouched(k) == entry'[k] = entry[k] /\ queue'[k] = queue[k] /\ task'[k] = task[k]

\* C23: a unit of work puts its events only on its own job's queue and touches no
\* other job; creating a job leaves every earlier job registered and untouched;
\* cancel of one job and a stream read of one job touch no other job.
C23_CrossJobIsolation ==
    [][/\ \A t \in JobRefs : sent'[t] # sent[t] =>
             /\ queue'[t] # queue[t]
             /\ \A k \in JobRefs \ {t} : Untouched(k)
       /\ \A req \in Requests : Create(req) =>
             \A k \in 1..nJobs : Untouched(k) /\ jobs'[entry[k].id] = k
       /\ \A id \in JobIds : Cancel(id) =>
             \A k \in JobRefs : entry[k].id # id => Untouched(k)
       /\ \A c \in DOMAIN cons : StreamGet(c) =>
             \A k \in JobRefs \ {cons[c].q} : Untouched(k)]_vars

\* ---- jobs, a restart of the process, and rerun

\* the process is restarted: _jobs is empty again and the tasks are gone; jobs.jsonl
\* stays. The new process has the pid and the hash seed of the old one, so that its
\* job ids are comparable with those in the history
ProcessRestart ==
    /\ \E id \in JobIds : jobs[id] # 0
    /\ jobs' = [id \in JobIds |-> 0]
    /\ task' = [t \in JobRefs |-> IF task[t].pc = "none" THEN task[t] ELSE [task[t] EXCEPT !.pc = "done"]]
    /\ UNCHANGED <<clock, entry, queue, sent, changes, cons, log, wait, pipe, llm, lock>>

NextRerun ==
    \/ Tick
    \/ \E req \in Requests : Create(req)
    \/ \E id \in JobIds : Cancel(id)
    \/ \E id \in JobIds : Rerun(id)
    \/ \E t \in JobRefs : TaskStart(t)
    \/ \E t \in JobRefs : TaskCancelledBeforeStart(t)
    \/ \E t \in JobRefs : TaskResumeScore(t)
    \/ \E t \in JobRefs : TaskResumeDraft(t)
    \/ \E t \in JobRefs : TaskCancelled(t)
    \/ ProcessRestart

SpecRerun == Init /\ [][NextRerun]_vars

\* C24: rerun of a registered job creates a job with the registry's params; rerun of
\* an id only the history knows creates a job with the params of its record; rerun
\* of an unknown id creates nothing and starts nothing; the original's registry
\* entry and the history log are left as they were.
C24_RerunLookup ==
    [][\A id \in JobIds : Rerun(id) =>
          /\ log' = log
          /\ jobs[id] # 0 =>
                /\ jobs'[id] = jobs[id]
                /\ entry'[jobs[id]] = entry[jobs[id]]
                /\ nJobs' = nJobs + 1
                /\ entry'[nJobs + 1].params = entry[jobs[id]].params
          /\ (jobs[id] = 0 /\ Recorded(id) # {}) =>
                /\ nJobs' = nJobs + 1
                /\ \E i \in Recorded(id) : entry'[nJobs + 1].params = log[i].params
          /\ (jobs[id] = 0 /\ Recorded(id) = {}) =>
                UNCHANGED <<jobs, entry, queue, task>>]_vars

\* ---- the composite score

\* the sum of the scores of a list of scored items
RECURSIVE TotalScore(_)
TotalScore(items) ==
    IF items = <<>> THEN 0 ELSE items[Len(items)].score + TotalScore(SubSeq(items, 1, Len(items) - 1))

\* the quotient c has the value v
HasValue(c, v) == IF c.n = 0 THEN v = 0 /\ c.sum = 0 ELSE c.sum = v * c.n

\* the composite of an AuditResult is the mean of its scores, 0 without scores
MeanOfScores(r) ==
    IF r.scores = <<>> THEN HasValue(r.composite, 0)
    ELSE r.composite.n > 0 /\ r.composite.sum * Len(r.scores) = TotalScore(r.scores) * r.composite.n

\* two scored items, both scoring 3
TwoThrees(r) == Len(r.scores) = 2 /\ \A i \in 1..2 : r.scores[i].score = 3

\* the example: composite 3, both items among the gaps, a report when the report
\* writer works
ExampleHolds(r) ==
    TwoThrees(r) =>
        /\ HasValue(r.composite, 3)
        /\ Questions(r.gaps) = Questions(r.scores)
        /\ "report" \notin pipe.env.fail => r.report_path

C26_CancelFinishedJob ==
    [][\A id \in JobIds :
          (Cancel(id) /\ jobs[id] # 0 /\ entry[jobs[id]].status \in Terminal) =>
              /\ entry'[jobs[id]].status = entry[jobs[id]].status
              /\ entry'[jobs[id]].result = entry[jobs[id]].result
              /\ log' = log
              /\ \A i \in 1..Len(log') : log'[i].job_id = id => StatusOf(id)' = log'[i].status]_vars

\* ---- the units of work and their cancellation, without clients that read

NextUnits ==
    \/ \E req \in Requests : Create(req)
    \/ \E id \in JobIds : Cancel(id)
    \/ \E t \in JobRefs : TaskStart(t)
    \/ \E t \in JobRefs : TaskCancelledBeforeStart(t)
    \/ \E t \in JobRefs : TaskResumeScore(t)
    \/ \E t \in JobRefs : TaskResumeDraft(t)
    \/ \E t \in JobRefs : TaskCancelled(t)

SpecUnits == Init /\ [][NextUnits]_vars

\* the positions of the sentinel among the puts of the unit of work t
Sentinels(t) == {i \in 1..Len(sent[t]) : sent[t][i] = DONE}

\* C27: a unit of work puts [DONE] at most once and puts nothing after it, when it
\* completes, when it fails and when it is cancelled at any of its suspension points.
C27_DoneAtMostOnce ==
    \A t \in JobRefs :
        /\ Cardinality(Sentinels(t)) <= 1
        /\ \A i \in Sentinels(t) : i = Len(sent[t])

\* a unit of work was cancelled while suspended in the draft stage, after the events
\* of its score stage, and has put the cancelled event and the sentinel
C27_Witness ==
    \E t \in JobRefs :
        /\ CancelObserved(t)
        /\ \E i \in 1..Len(sent[t]) : sent[t][i].stage = "score_done"
        /\ EndsWith(sent[t], <<Event("cancelled", <<0>>), DONE>>)

\* ---- the registry lock and a stream call for an unknown job id

\* gen() of a stream call for an id the registry does not hold: it yields the error
\* frame inside `async with _jobs_lock`, and waits there for the client to take it
StreamNotFound(c, id) ==
    /\ cons[c].st = "idle"
    /\ lock = NoHolder
    /\ jobs[id] = 0
    /\ lock' = c
    /\ cons' = [cons EXCEPT ![c] = [@ EXCEPT !.st = "notfound", !.frames = <<NotFoundFrame>>]]
    /\ UNCHANGED <<clock, jobs, entry, queue, sent, changes, task, log, wait, pipe, llm>>

\* the client has taken the error frame: the second yield, still inside the lock
StreamNotFoundDone(c) ==
    /\ cons[c].st = "notfound"
    /\ cons' = [cons EXCEPT ![c] = [@ EXCEPT !.st = "notfound_done", !.frames = Append(@, DoneFrame)]]
    /\ UNCHANGED <<clock, jobs, entry, queue, sent, changes, task, log, wait, pipe, llm, lock>>

\* the client has taken the [DONE] frame: return leaves the `async with`
StreamNotFoundReturn(c) ==
    /\ cons[c].st = "notfound_done"
    /\ lock' = NoHolder
    /\ cons' = [cons EXCEPT ![c] = [@ EXCEPT !.st = "ended"]]
    /\ UNCHANGED <<clock, jobs, entry, queue, sent, changes, task, log, wait, pipe, llm>>

NextLock ==
    \/ \E req \in Requests : Create(req)
    \/ \E id \in JobIds : Status(id)
    \/ \E id \in JobIds : Cancel(id)
    \/ \E t \in JobRefs : TaskStart(t)
    \/ \E t \in JobRefs : TaskCancelledBeforeStart(t)
    \/ \E t \in JobRefs : TaskResumeScore(t)
    \/ \E t \in JobRefs : TaskResumeDraft(t)
    \/ \E t \in JobRefs : TaskCancelled(t)
    \/ \E c \in Consumers, id \in JobIds : jobs[id] # 0 /\ StreamOpen(c, id)
    \/ \E c \in Consumers, id \in JobIds : StreamNotFound(c, id)
    \/ \E c \in Consumers : StreamNotFoundDone(c)
    \/ \E c \in Consumers : StreamNotFoundReturn(c)
    \/ \E c \in Consumers : StreamGet(c)
    \/ \E c \in Consumers : StreamHeartbeat(c)

SpecLock == Init /\ [][NextLock]_vars

\* C28: between two steps, that is wherever an operation waits for a client, a
\* queue or a collaborator, nobody holds the registry lock, so a create, a status
\* and a cancel call can always go ahead, whatever a stream consumer does.
C28_LockNeverHeldAcrossWait ==
    /\ lock = NoHolder
    /\ \A id \in JobIds : ENABLED Status(id) /\ ENABLED Cancel(id)

\* ---- the sources of the streamed fragments

\* some provider key is set and the mock flag is not: the fragments are provider text
FromProviders == ~llm.c.mock /\ \E p \in ProviderNames : llm.c.prov[p].key

\* C29: the characters generate_stream yields all come from one provider and none
\* of them is yielded twice, so nothing of another provider's stream or of a
\* non-streaming fallback follows the fragments of a native stream.
C29_OneSourceOnly ==
    (llm.str.done /\ FromProviders) =>
        LET text == Concat(llm.str.frags)
        IN \A i, j \in 1..Len(text) :
              /\ text[i][1] = text[j][1]
              /\ i < j => text[i][2] < text[j][2]

\* ---- the result of a job

\* the final events put on the queue of the job j, by whichever unit of work
FinalsOn(j) ==
    {<<t, i>> \in JobRefs \X (1..20) :
        task[t].q = j /\ i <= Len(sent[t]) /\ sent[t][i].stage = "final"}

\* the result of the job j is the payload of a final event put on its queue before
\* a [DONE]
ResultIsFinalPayload(j) ==
    /\ entry[j].result # NoResult
    /\ \E f \in FinalsOn(j) :
          /\ entry[j].result = ResultOf(sent[f[1]][f[2]])
          /\ \E k \in (f[2] + 1)..Len(sent[f[1]]) : sent[f[1]][k] = DONE

ResultMatchesStatus(j) ==
    /\ entry[j].status = "completed" => ResultIsFinalPayload(j)
    /\ entry[j].status \in {"error", "cancelled"} => entry[j].result = NoResult /\ FinalsOn(j) = {}

\* C30: a completed job's result is the payload of the final event put before
\* [DONE]; a job in status error or cancelled has no result and no final event on
\* its queue; a history record carries the result the job has when it is written.
C30_ResultMatchesStatus ==
    [][/\ \A j \in JobRefs : ResultMatchesStatus(j)'
       /\ Len(log') > Len(log) =>
             log'[Len(log')].result = entry'[jobs'[log'[Len(log')].job_id]].result]_vars
====
